---- MODULE Spec2Model ----
(***************************************************************************)
(* The scoreboard request handler of src/app.go: fetch and parse the game  *)
(* log, sort the games by ID, fold the Elo scoring over them, and rank the *)
(* players by score.                                                       *)
(*                                                                         *)
(* Strings are sequences of one-character strings, so trimming, the search *)
(* for the team separator and Go's bytewise string comparison are computed *)
(* rather than assumed.  The Go map scores is a function whose DOMAIN is   *)
(* the key set.  Floating point values are fixed-point integers.           *)
(***************************************************************************)
EXTENDS Integers, Sequences, FiniteSets, TLC

VARIABLES
    values,     \* resp.Values: the raw rows of the sheet
    pc,         \* position of the handler
    games,      \* []*Game: the parsed games, mutated in place by scoreGame
    scores,     \* map[string]int of calculateScores
    idx,        \* position of the range loop of calculateScores (1-based)
    rankings,   \* []Player built by the handler
    log         \* what log.Printf has written: <<kind, index>>

vars == <<values, pc, games, scores, idx, rankings, log>>

----------------------------------------------------------------------------
(* Bounds of the checked inputs. *)

MaxRows == 2

----------------------------------------------------------------------------
(* Strings. *)

\* The characters in use, in ascending byte order.
Alphabet == <<" ", "/", "0", "1", "2", "3", "4", "5", "6", "7", "8", "9",
              "A", "B", "C", "D", "E", "F", "G", "x">>

Code(c) == CHOOSE i \in 1..Len(Alphabet) : Alphabet[i] = c

\* Go's s < t on strings: bytewise lexicographic.
RECURSIVE StrLess(_, _)
StrLess(s, t) ==
    IF t = <<>> THEN FALSE
    ELSE IF s = <<>> THEN TRUE
    ELSE IF Code(Head(s)) # Code(Head(t)) THEN Code(Head(s)) < Code(Head(t))
    ELSE StrLess(Tail(s), Tail(t))

RECURSIVE TrimLeft(_)
TrimLeft(s) ==
    IF s # <<>> /\ Head(s) = " " THEN TrimLeft(Tail(s)) ELSE s

RECURSIVE TrimRight(_)
TrimRight(s) ==
    IF s # <<>> /\ s[Len(s)] = " " THEN TrimRight(SubSeq(s, 1, Len(s) - 1)) ELSE s

\* strings.Trim(name, " ")
Trim(s) == TrimRight(TrimLeft(s))

\* strings.Contains(name, "/")
Contains(s, c) == \E i \in 1..Len(s) : s[i] = c

\* The decimal text of a game number, as the sheet cell holds it.
RECURSIVE Format(_)
Format(n) ==
    IF n < 10 THEN <<Alphabet[n + 3]>>
    ELSE Format(n \div 10) \o <<Alphabet[(n % 10) + 3]>>

----------------------------------------------------------------------------
(* parseGameData *)

NewGame(row) ==
    [ID |-> row[1], Date |-> row[2], Rankings |-> <<>>, TableZap |-> row[3],
     DrawGame |-> row[4], RankTotal |-> 0, RankAverage |-> 0,
     TwoHeadedGiant |-> FALSE]

\* The loop over the player cells of one row.
RECURSIVE ParsePlayers(_, _)
ParsePlayers(g, players) ==
    IF players = <<>> THEN g
    ELSE LET name == Trim(Head(players))
         IN  IF Contains(name, "/")
             THEN ParsePlayers([g EXCEPT !.TwoHeadedGiant = TRUE], Tail(players))
             ELSE ParsePlayers([g EXCEPT !.Rankings = Append(@, name)], Tail(players))

\* ParseFrom without the drop of team games.
RECURSIVE ParseFromKeepTeams(_, _, _, _)
ParseFromKeepTeams(vals, i, gs, lg) ==
    IF i > Len(vals) THEN [panicked |-> FALSE, games |-> gs, log |-> lg]
    ELSE LET row == vals[i]
         IN  IF Len(row) < 4
             THEN ParseFromKeepTeams(vals, i + 1, gs, Append(lg, <<"malformed", i - 1>>))
             ELSE IF i = 1
             THEN ParseFromKeepTeams(vals, i + 1, gs, lg)
             ELSE IF Len(row) < 5
             THEN [panicked |-> TRUE, games |-> gs, log |-> lg]
             ELSE LET g == ParsePlayers(NewGame(row), SubSeq(row, 6, Len(row)))
                  IN  ParseFromKeepTeams(vals, i + 1, Append(gs, g), lg)

\* The loop over the rows, from row i (1-based; the code's idx is i - 1).
\* row[5:] panics when the row has fewer than 5 cells.
RECURSIVE ParseFrom(_, _, _, _)
ParseFrom(vals, i, gs, lg) ==
    IF i > Len(vals) THEN [panicked |-> FALSE, games |-> gs, log |-> lg]
    ELSE LET row == vals[i]
         IN  IF Len(row) < 4
             THEN ParseFrom(vals, i + 1, gs, Append(lg, <<"malformed", i - 1>>))
             ELSE IF i = 1
             THEN ParseFrom(vals, i + 1, gs, lg)
             ELSE IF Len(row) < 5
             THEN [panicked |-> TRUE, games |-> gs, log |-> lg]
             ELSE LET g == ParsePlayers(NewGame(row), SubSeq(row, 6, Len(row)))
                  IN  IF g.TwoHeadedGiant
                      THEN ParseFrom(vals, i + 1, gs, lg)
                      ELSE ParseFrom(vals, i + 1, Append(gs, g), lg)

parseGameData(vals) == ParseFrom(vals, 1, <<>>, <<>>)

----------------------------------------------------------------------------
(* The Elo library (github.com/kortemy/elo-go), whose source is not part of *)
(* the repository: modelled from the specification's formula               *)
(*   expected = 1 / (1 + 10^((ratingB - ratingA) / D))                     *)
(*   delta    = round(K * (score - expected))                              *)
(* in fixed point with Scale fractional units.  The series below agrees    *)
(* with the float64 computation for |ratingB - ratingA| <= 200.            *)

K == 32

D == 400

Scale == 10 ^ 4

\* ln 10 in units of 1/Scale
Ln10 == 23026

\* e^(y / Scale) * Scale: the Taylor series, term k+1 from term k.
RECURSIVE ExpSeries(_, _, _, _)
ExpSeries(y, k, term, acc) ==
    IF k > 24 THEN acc
    ELSE LET next == (term * y) \div (Scale * k)
         IN  ExpSeries(y, k + 1, next, acc + next)

\* 10^((ratingB - ratingA) / D) * Scale
Pow10(ratingA, ratingB) ==
    ExpSeries(((ratingB - ratingA) * Ln10) \div D, 1, Scale, Scale)

\* elo.ExpectedScore(ratingA, ratingB) * Scale
ExpectedScore(ratingA, ratingB) ==
    (Scale * Scale) \div (Scale + Pow10(ratingA, ratingB))

\* num / den rounded to the nearest integer, halves away from zero (den > 0)
Round(num, den) ==
    IF num >= 0 THEN (2 * num + den) \div (2 * den)
    ELSE 0 - ((2 * (0 - num) + den) \div (2 * den))

\* elo.RatingDelta(ratingA, ratingB, score), score in hundredths
RatingDelta(ratingA, ratingB, score) ==
    Round(K * (score * (Scale \div 100) - ExpectedScore(ratingA, ratingB)), Scale)

----------------------------------------------------------------------------
(* The reward curves, in hundredths. *)

twoPlayers == <<100, 0>>

threePlayers == <<100, 50, 0>>

fourPlayers == <<100, 50, 25, 0>>

fivePlayers == <<100, 50, 25, 12, 0>>

sixPlayers == <<100, 50, 25, 12, 5, 0>>

----------------------------------------------------------------------------
(* scoreGame and updateScores *)

DefaultRating == 1500

EmptyScores == [p \in {} |-> 0]

Put(m, k, v) == [p \in DOMAIN m \cup {k} |-> IF p = k THEN v ELSE m[p]]

\* SumRankings with new players seeded at 1000.
RECURSIVE SumRankingsSeed1000(_, _, _)
SumRankingsSeed1000(sc, players, rankTotal) ==
    IF players = <<>> THEN [scores |-> sc, rankTotal |-> rankTotal]
    ELSE LET player == Head(players)
             sc1 == IF player \in DOMAIN sc THEN sc
                    ELSE Put(sc, player, 1000)
         IN  SumRankingsSeed1000(sc1, Tail(players), rankTotal + sc1[player])

\* The loop "determine rankings" of scoreGame: registers the players not yet
\* in the map and sums the ratings.
RECURSIVE SumRankings(_, _, _)
SumRankings(sc, players, rankTotal) ==
    IF players = <<>> THEN [scores |-> sc, rankTotal |-> rankTotal]
    ELSE LET player == Head(players)
             sc1 == IF player \in DOMAIN sc THEN sc
                    ELSE Put(sc, player, DefaultRating)
         IN  SumRankings(sc1, Tail(players), rankTotal + sc1[player])

\* PositionDelta with the game's average passed as the player's rating.
PositionDeltaFlat(game, i, playerScore) ==
    LET n == Len(game.Rankings)
    IN  CASE n = 2 -> RatingDelta(game.RankAverage, game.RankAverage, twoPlayers[i])
          [] n = 3 -> RatingDelta(game.RankAverage, game.RankAverage, threePlayers[i])
          [] n = 4 -> RatingDelta(game.RankAverage, game.RankAverage, fourPlayers[i])
          [] n = 5 -> RatingDelta(game.RankAverage, game.RankAverage, fivePlayers[i])
          [] n = 6 -> RatingDelta(game.RankAverage, game.RankAverage, sixPlayers[i])
          [] OTHER -> 0

\* PositionDelta with the 3-player case reading the 4-player curve.
PositionDeltaWrongCurve(game, i, playerScore) ==
    LET n == Len(game.Rankings)
    IN  CASE n = 2 -> RatingDelta(playerScore, game.RankAverage, twoPlayers[i])
          [] n = 3 -> RatingDelta(playerScore, game.RankAverage, fourPlayers[i])
          [] n = 4 -> RatingDelta(playerScore, game.RankAverage, fourPlayers[i])
          [] n = 5 -> RatingDelta(playerScore, game.RankAverage, fivePlayers[i])
          [] n = 6 -> RatingDelta(playerScore, game.RankAverage, sixPlayers[i])
          [] OTHER -> 0

\* The switch of updateScores: the delta of the player at position i (1-based).
PositionDelta(game, i, playerScore) ==
    LET n == Len(game.Rankings)
    IN  CASE n = 2 -> RatingDelta(playerScore, game.RankAverage, twoPlayers[i])
          [] n = 3 -> RatingDelta(playerScore, game.RankAverage, threePlayers[i])
          [] n = 4 -> RatingDelta(playerScore, game.RankAverage, fourPlayers[i])
          [] n = 5 -> RatingDelta(playerScore, game.RankAverage, fivePlayers[i])
          [] n = 6 -> RatingDelta(playerScore, game.RankAverage, sixPlayers[i])
          [] OTHER -> 0

\* The loop of updateScores, from position i.
RECURSIVE UpdateFrom(_, _, _)
UpdateFrom(sc, game, i) ==
    IF i > Len(game.Rankings) THEN sc
    ELSE LET player == game.Rankings[i]
             ratingsDelta == PositionDelta(game, i, sc[player])
         IN  UpdateFrom([sc EXCEPT ![player] = @ + ratingsDelta], game, i + 1)

updateScores(sc, game) == UpdateFrom(sc, game, 1)

\* WithRank with the average rounded up.
WithRankCeil(game, rankTotal) ==
    [game EXCEPT !.RankTotal = rankTotal,
                 !.RankAverage = (rankTotal + Len(game.Rankings) - 1)
                                     \div Len(game.Rankings)]

\* scoreGame up to the call of updateScores: the game with its rank fields set.
WithRank(game, rankTotal) ==
    [game EXCEPT !.RankTotal = rankTotal,
                 !.RankAverage = rankTotal \div Len(game.Rankings)]

\* NotEnoughPlayers rejecting only the empty game.
NotEnoughPlayersLt1(game) == Len(game.Rankings) < 1

\* The guard of scoreGame: "invalid game: not enough players".
NotEnoughPlayers(game) == Len(game.Rankings) < 2

\* scoreGame as a whole: whether it returned an error, the map and the game.
scoreGame(sc, game) ==
    IF NotEnoughPlayers(game) THEN [err |-> TRUE, scores |-> sc, game |-> game]
    ELSE LET r == SumRankings(sc, game.Rankings, 0)
             g == WithRank(game, r.rankTotal)
         IN  [err |-> FALSE, scores |-> updateScores(r.scores, g), game |-> g]

\* calculateScores as a whole: the map after the loop over gs.
RECURSIVE ScoresFrom(_, _, _)
ScoresFrom(sc, gs, i) ==
    IF i > Len(gs) THEN sc
    ELSE ScoresFrom(scoreGame(sc, gs[i]).scores, gs, i + 1)

calculateScores(gs) == ScoresFrom(EmptyScores, gs, 1)

----------------------------------------------------------------------------
(* The sorts of the handler.  sort.Sort is not stable: any permutation that *)
(* is ordered by Less may come out.                                        *)

Permute(seq, f) == [i \in 1..Len(seq) |-> seq[f[i]]]

Bijections(n) == {f \in [1..n -> 1..n] : \A i, j \in 1..n : i # j => f[i] # f[j]}

\* ByID.Less
ByIDLess(g, h) == StrLess(g.ID, h.ID)

\* sort.Sort(ByID(games))
SortByID(gs) ==
    {r \in {Permute(gs, f) : f \in Bijections(Len(gs))} :
        \A i, j \in 1..Len(r) : i < j => ~ByIDLess(r[j], r[i])}

\* ByScore.Less
ByScoreLess(p, q) == p.Score > q.Score

\* The players of the map, collected in whatever order range visits them,
\* after sort.Sort(ByScore(rankings)): every order of the players of left in
\* which no player stands before one that is Less than it.
RECURSIVE SortByScore(_, _)
SortByScore(sc, left) ==
    IF left = {} THEN {<<>>}
    ELSE LET Player(k) == [Name |-> k, Score |-> sc[k]]
         IN  UNION {
               {<<Player(k)>> \o rest : rest \in SortByScore(sc, left \ {k})} :
               k \in {k \in left :
                        \A q \in left : ~ByScoreLess(Player(q), Player(k))}}

----------------------------------------------------------------------------
(* The inputs: the sheet's rows. *)

Cell(c) == <<c>>

\* The row of column labels.
Header == [i \in 1..6 |-> Cell("x")]

\* Columns A to E of a game's row: ID, date, zap, draw, reserved.
MetaRow(id) == <<id, Cell("x"), Cell("x"), Cell("x"), Cell("x")>>

\* Player cells as typed into the sheet: plain, padded, a team, blank.
RawCells == {<<"A">>, <<" ", "B", " ">>, <<"A", "/", "B">>, <<" ">>}

Roster == <<Cell("A"), Cell("B"), Cell("C"), Cell("D"), Cell("E"), Cell("F"), Cell("G")>>

SeqsUpTo(S, n) == UNION {[1..k -> S] : k \in 0..n}

\* Finish orders of up to two cells over two players, a game between two
\* others, and pods of 3 to 7.
Lineups ==
    SeqsUpTo({Cell("A"), Cell("B")}, 2) \cup {<<Cell("C"), Cell("D")>>}
        \cup {SubSeq(Roster, 1, n) : n \in 3..7}

\* Rows cut short, and rows whose player cells are typed loosely.
LooseRows(id) ==
    {SubSeq(MetaRow(id), 1, n) : n \in {0, 3, 4}}
        \cup {MetaRow(id) \o c : c \in SeqsUpTo(RawCells, 2)}

LineupRows(id) == {MetaRow(id) \o l : l \in Lineups}

\* Two-player games numbered out of order.
GameNumbers == {1, 2, 10, 11}

NumberedRows ==
    {MetaRow(Format(n)) \o l : n \in GameNumbers,
                               l \in {<<Cell("A"), Cell("B")>>, <<Cell("B"), Cell("A")>>}}

\* The rows a sheet of one kind may hold at position n.
RowsAt(kind, n) ==
    CASE kind = "loose" -> LooseRows(Format(n))
      [] kind = "lineup" -> LineupRows(Format(n))
      [] kind = "numbered" -> NumberedRows

RECURSIVE RowSeqs(_, _)
RowSeqs(kind, n) ==
    IF n = 0 THEN {<<>>}
    ELSE {Append(s, r) : s \in RowSeqs(kind, n - 1), r \in RowsAt(kind, n)}

\* An empty sheet, or the header and up to MaxRows rows of one kind.
Sheets ==
    {<<>>} \cup
    {<<Header>> \o s :
        s \in UNION {RowSeqs(kind, n) :
                        kind \in {"loose", "lineup", "numbered"}, n \in 0..MaxRows}}

----------------------------------------------------------------------------
(* The handler. *)

Init ==
    /\ values \in Sheets
    /\ pc = "fetch"
    /\ games = <<>>
    /\ scores = EmptyScores
    /\ idx = 1
    /\ rankings = <<>>
    /\ log = <<>>

\* fetchGameData fails: the sheet cannot be read, or it holds no rows.
FetchError ==
    /\ pc = "fetch"
    /\ pc' = "error"
    /\ UNCHANGED <<values, games, scores, idx, rankings, log>>

\* fetchGameData returns the parsed games.
Fetch ==
    /\ pc = "fetch"
    /\ Len(values) # 0
    /\ LET r == parseGameData(values)
       IN  /\ ~r.panicked
           /\ games' = r.games
           /\ log' = r.log
    /\ pc' = "sort"
    /\ UNCHANGED <<values, scores, idx, rankings>>

\* parseGameData panics (slice bounds out of range): the handler is aborted.
FetchPanic ==
    /\ pc = "fetch"
    /\ Len(values) # 0
    /\ LET r == parseGameData(values)
       IN  /\ r.panicked
           /\ log' = r.log
    /\ pc' = "panic"
    /\ UNCHANGED <<values, games, scores, idx, rankings>>

\* sort.Sort(ByID(games)), then calculateScores starts with an empty map.
Sort ==
    /\ pc = "sort"
    /\ games' \in SortByID(games)
    /\ scores' = EmptyScores
    /\ idx' = 1
    /\ pc' = "score"
    /\ UNCHANGED <<values, rankings, log>>

\* scoreGame returns its error: calculateScores logs it and goes on.
ScoreReject ==
    /\ pc = "score"
    /\ idx <= Len(games)
    /\ NotEnoughPlayers(games[idx])
    /\ log' = Append(log, <<"failed", idx>>)
    /\ idx' = idx + 1
    /\ UNCHANGED <<values, pc, games, scores, rankings>>

\* scoreGame up to the call of updateScores.
ScoreRank ==
    /\ pc = "score"
    /\ idx <= Len(games)
    /\ ~NotEnoughPlayers(games[idx])
    /\ LET r == SumRankings(scores, games[idx].Rankings, 0)
       IN  /\ scores' = r.scores
           /\ games' = [games EXCEPT ![idx] = WithRank(@, r.rankTotal)]
    /\ pc' = "update"
    /\ UNCHANGED <<values, idx, rankings, log>>

\* updateScores, and the return of scoreGame.
ScoreUpdate ==
    /\ pc = "update"
    /\ scores' = updateScores(scores, games[idx])
    /\ idx' = idx + 1
    /\ pc' = "score"
    /\ UNCHANGED <<values, games, rankings, log>>

\* calculateScores returns; the handler builds and sorts the rankings.
Rank ==
    /\ pc = "score"
    /\ idx > Len(games)
    /\ rankings' \in SortByScore(scores, DOMAIN scores)
    /\ pc' = "done"
    /\ UNCHANGED <<values, games, scores, idx, log>>

Next ==
    \/ FetchError
    \/ Fetch
    \/ FetchPanic
    \/ Sort
    \/ ScoreReject
    \/ ScoreRank
    \/ ScoreUpdate
    \/ Rank

Spec == Init /\ [][Next]_vars

----------------------------------------------------------------------------
(* Definitions shared by the properties. *)

\* The 1-based positions of the games calculateScores has finished with.
Scored == 1..(idx - 1)

Participants(game) == {game.Rankings[i] : i \in 1..Len(game.Rankings)}

\* The number a string of digits denotes.
RECURSIVE Number(_)
Number(s) ==
    IF s = <<>> THEN 0
    ELSE 10 * Number(SubSeq(s, 1, Len(s) - 1)) + (Code(s[Len(s)]) - 3)

\* A row with a team in one of its player cells.
HasTeamCell(row) == \E j \in 6..Len(row) : Contains(row[j], "/")

RemoveAt(seq, i) == SubSeq(seq, 1, i - 1) \o SubSeq(seq, i + 1, Len(seq))

----------------------------------------------------------------------------
(* C1 *)

\* The rankings C1 expects of a row: the trimmed cells from column 5 on.
C1_Rankings(row) == [j \in 1..(IF Len(row) > 5 THEN Len(row) - 5 ELSE 0) |-> Trim(row[j + 5])]

C1_Eligible(row) == Len(row) >= 4 /\ ~HasTeamCell(row)

RECURSIVE C1_Select(_)
C1_Select(rows) ==
    IF rows = <<>> THEN <<>>
    ELSE IF C1_Eligible(Head(rows)) THEN <<Head(rows)>> \o C1_Select(Tail(rows))
    ELSE C1_Select(Tail(rows))

C1_Expected ==
    LET rows == C1_Select(Tail(values))
    IN  [i \in 1..Len(rows) |-> [ID |-> rows[i][1], Rankings |-> C1_Rankings(rows[i])]]

\* C1: parseGameData never aborts, and returns in row order one Game for every
\* non-header row with at least 4 columns and no team cell, its Rankings the
\* trimmed cells from column 5 onward; shorter rows are skipped.
C1_ParseTotal ==
    /\ pc # "panic"
    /\ pc = "sort" =>
         [i \in 1..Len(games) |-> [ID |-> games[i].ID, Rankings |-> games[i].Rankings]]
             = C1_Expected

----------------------------------------------------------------------------
(* C2 *)

\* C2: scoreGame on a game of more than 6 participants leaves the rating
\* mapping as it was, keys and values.
C2_OversizeSkipped ==
    [][(pc \in {"score", "update"} /\ idx <= Len(games)
            /\ Len(games[idx].Rankings) > 6) => scores' = scores]_vars

----------------------------------------------------------------------------
(* C3 *)

\* C3: after the sort by ID the games stand in ascending order of their
\* numbers, so the game numbered a is scored before the game numbered b > a.
C3_NumericOrder ==
    pc \in {"score", "update", "done"} =>
        \A i, j \in 1..Len(games) :
            Number(games[i].ID) < Number(games[j].ID) => i < j

----------------------------------------------------------------------------
(* C4 *)

\* Two games between the same two players with reversed outcomes.
C4_Reversed ==
    /\ Len(games) = 2
    /\ Len(games[1].Rankings) = 2
    /\ games[1].Rankings[1] # games[1].Rankings[2]
    /\ games[2].Rankings = <<games[1].Rankings[2], games[1].Rankings[1]>>

\* C4: when two unrated players play [A beats B] and then [B beats A], the
\* final ratings differ from those of the same two games scored in the
\* reversed order.
C4_OrderSensitive ==
    (pc = "done" /\ C4_Reversed) =>
        scores # calculateScores(<<games[2], games[1]>>)

C4_Witness ==
    /\ pc = "done"
    /\ C4_Reversed
    /\ scores[games[1].Rankings[1]] = 1499
    /\ scores[games[1].Rankings[2]] = 1501
    /\ calculateScores(<<games[2], games[1]>>)[games[1].Rankings[1]] = 1501

----------------------------------------------------------------------------
(* C5 *)

\* The scored games a player may have been registered by.
C5_Registering(p) ==
    {j \in 1..Len(games) :
        /\ j \in Scored \/ (j = idx /\ pc = "update")
        /\ p \in Participants(games[j])}

\* C5 as claimed: a player holds a key from the first game the player appears
\* in, whatever its size.
C5_KeyAtFirstAppearance ==
    pc \in {"score", "update", "done"} =>
        \A j \in 1..Len(games) :
            (j \in Scored \/ (j = idx /\ pc = "update")) =>
                Participants(games[j]) \subseteq DOMAIN scores

C5_KeysOfScoredGames ==
    pc \in {"score", "update", "done"} =>
        /\ \A p \in DOMAIN scores : C5_Registering(p) # {}
        /\ \A j \in 1..Len(games) :
              ((j \in Scored \/ (j = idx /\ pc = "update"))
                  /\ Len(games[j].Rankings) >= 2) =>
                  Participants(games[j]) \subseteq DOMAIN scores

C5_Step ==
    /\ DOMAIN scores \subseteq DOMAIN scores'
    /\ \A p \in DOMAIN scores' \ DOMAIN scores :
          /\ scores'[p] = 1500
          /\ pc = "score" /\ pc' = "update"
          /\ p \in Participants(games[idx])
          /\ Len(games[idx].Rankings) >= 2

\* C5 (amended): across a scoring pass no step removes a key of the rating
\* mapping, and a key is first inserted with the value 1500, at the first
\* game with at least 2 participants in which the player appears.
C5_KeysOnlyGrow == []C5_KeysOfScoredGames /\ [][C5_Step]_vars

C5_Witness ==
    /\ pc = "update"
    /\ idx = 2
    /\ Len(games[1].Rankings) = 1
    /\ games[1].Rankings[1] \in Participants(games[2])
    /\ scores[games[1].Rankings[1]] = 1500
    /\ log = <<<<"failed", 1>>>>

----------------------------------------------------------------------------
(* C6 *)

\* The data rows (1-based positions in values) that hold a team cell.
C6_TeamRows == {i \in 2..Len(values) : HasTeamCell(values[i])}

\* C6: a row with a team cell is absent from the games parseGameData returns,
\* and the rating mapping is the one computed from the rows without it.
C6_TeamRowAbsent ==
    \A i \in C6_TeamRows :
        LET r == parseGameData(RemoveAt(values, i))
        IN  /\ pc = "sort" => (~r.panicked /\ games = r.games)
            /\ pc = "done" =>
                  \E gs \in SortByID(r.games) : scores = calculateScores(gs)

C6_Witness ==
    /\ pc = "done"
    /\ C6_TeamRows # {}
    /\ \E i \in C6_TeamRows : \E j \in 6..Len(values[i]) : ~Contains(values[i][j], "/")
    /\ DOMAIN scores # {}

----------------------------------------------------------------------------
(* C7 *)

\* The reward curve of an n-player game.
C7_Weights(n) ==
    CASE n = 2 -> twoPlayers [] n = 3 -> threePlayers [] n = 4 -> fourPlayers
      [] n = 5 -> fivePlayers [] n = 6 -> sixPlayers

\* round(K * (w - 0.5)), w in hundredths
C7_Delta(w) == Round(K * (w - 50), 100)

\* A game about to be updated whose n distinct participants all hold rating r.
C7_Equal(r) ==
    /\ pc = "update"
    /\ Len(games[idx].Rankings) \in 2..6
    /\ Cardinality(Participants(games[idx])) = Len(games[idx].Rankings)
    /\ \A p \in Participants(games[idx]) : scores[p] = r

C7_Step ==
    \A r \in {scores[p] : p \in DOMAIN scores} :
        C7_Equal(r) =>
            LET g == games[idx]
                n == Len(g.Rankings)
            IN  /\ g.RankAverage = r
                /\ ExpectedScore(r, g.RankAverage) * 2 = Scale
                /\ \A i \in 1..n :
                      scores'[g.Rankings[i]] = r + C7_Delta(C7_Weights(n)[i])
                /\ (n = 2 /\ r = 1500) =>
                      /\ scores'[g.Rankings[1]] = 1516
                      /\ scores'[g.Rankings[2]] = 1484
                /\ n = 3 =>
                      /\ scores'[g.Rankings[1]] = r + 16
                      /\ scores'[g.Rankings[2]] = r
                      /\ scores'[g.Rankings[3]] = r - 16

\* C7: when all n participants (2 <= n <= 6) hold the same rating r,
\* rankAverage is r, the expected score is 0.5 and position i moves by
\* round(K * (w(n,i) - 0.5)): 1516 and 1484 for two fresh players, and
\* +16, 0, -16 in a 3-player game.
C7_EqualRatings == [][C7_Step]_vars

C7_Witness ==
    /\ pc = "score"
    /\ idx = 2
    /\ Len(games[1].Rankings) = 3
    /\ games[1].RankAverage = 1500
    /\ scores[games[1].Rankings[1]] = 1516
    /\ scores[games[1].Rankings[2]] = 1500
    /\ scores[games[1].Rankings[3]] = 1484

----------------------------------------------------------------------------
(* C8 *)

\* C8: the ranked list is sorted by rating descending, players of equal
\* rating by name, so it is a function of the rating mapping alone.
C8_RankingDeterministic ==
    pc = "done" =>
        \A i, j \in 1..Len(rankings) :
            i < j =>
                \/ rankings[i].Score > rankings[j].Score
                \/ /\ rankings[i].Score = rankings[j].Score
                   /\ StrLess(rankings[i].Name, rankings[j].Name)

----------------------------------------------------------------------------
(* C9 *)

C9_Step ==
    (pc = "score" /\ idx <= Len(games) /\ Len(games[idx].Rankings) < 2) =>
        /\ scores' = scores
        /\ games' = games
        /\ log' = Append(log, <<"failed", idx>>)
        /\ idx' = idx + 1
        /\ pc' = "score"

C9_Pass ==
    pc = "done" =>
        /\ idx = Len(games) + 1
        /\ \A j \in 1..Len(games) :
              IF Len(games[j].Rankings) < 2
              THEN /\ games[j].RankTotal = 0
                   /\ games[j].RankAverage = 0
                   /\ \E k \in 1..Len(log) : log[k] = <<"failed", j>>
              ELSE /\ games[j].RankTotal >= 2 * 1000
                   /\ Participants(games[j]) \subseteq DOMAIN scores

\* C9: scoreGame rejects a game of fewer than 2 participants with an error,
\* leaving the rating mapping and the game's RankTotal and RankAverage as
\* they were, and calculateScores goes on to score every later game.
C9_RejectedNotFatal == []C9_Pass /\ [][C9_Step]_vars

C9_Witness ==
    /\ pc = "done"
    /\ Len(games) = 2
    /\ Len(games[1].Rankings) = 1
    /\ games[1].RankTotal = 0
    /\ games[2].RankTotal = 3000
    /\ games[1].Rankings[1] \notin DOMAIN scores
    /\ log = <<<<"failed", 1>>>>

----------------------------------------------------------------------------
(* C10 *)

\* The rating a participant brings to a game: the map's, or 1500 if unseen.
C10_Rating(sc, p) == IF p \in DOMAIN sc THEN sc[p] ELSE 1500

RECURSIVE C10_Sum(_, _)
C10_Sum(sc, players) ==
    IF players = <<>> THEN 0
    ELSE C10_Rating(sc, Head(players)) + C10_Sum(sc, Tail(players))

\* The positions at which p finished.
C10_Positions(g, p) == {i \in 1..Len(g.Rankings) : g.Rankings[i] = p}

C10_Step ==
    /\ (pc = "score" /\ pc' = "update") =>
          /\ games'[idx].RankTotal = C10_Sum(scores, games[idx].Rankings)
          /\ games'[idx].RankAverage =
                games'[idx].RankTotal \div Len(games[idx].Rankings)
    /\ (pc = "update" /\ pc' = "score") =>
          /\ games' = games
          /\ Len(games[idx].Rankings) \in 2..6 =>
                \A p \in Participants(games[idx]) :
                    \A i \in C10_Positions(games[idx], p) :
                        Cardinality(C10_Positions(games[idx], p)) = 1 =>
                            scores'[p] = scores[p] + RatingDelta(scores[p],
                                games[idx].RankAverage,
                                C7_Weights(Len(games[idx].Rankings))[i])
    /\ \A j \in 1..Len(games) :
          (pc \in {"score", "update"} /\ j \in Scored) =>
              /\ games'[j].RankTotal = games[j].RankTotal
              /\ games'[j].RankAverage = games[j].RankAverage

\* C10: a scored game's RankTotal is the sum of its participants' ratings as
\* they stood after the games before it (1500 for a player not yet seen),
\* its RankAverage is RankTotal integer-divided by the participant count, and
\* that average, unchanged while the game is updated and afterwards, is the
\* baseline of every participant's delta.
C10_RankBaseline == [][C10_Step]_vars

C10_Witness ==
    /\ pc = "done"
    /\ Len(games) = 2
    /\ games[1].RankTotal = 6000
    /\ games[2].RankTotal = 1516 + 1500 + 1492
    /\ games[2].RankAverage = 1502

====
